---- MODULE Spec2Model ----
(***************************************************************************)
(* Header relay of interbtc-clients: the Issuing gateway                   *)
(* (vault/src/relay/issuing.rs) run by several independent relayers        *)
(* against one remote BTC-relay light client.                              *)
(*                                                                         *)
(* The remote light client is not part of the repository; it is modelled   *)
(* as the specification describes it: it accepts every header, treats a    *)
(* header it already knows as a no-op, and any remote call may fail.       *)
(***************************************************************************)
EXTENDS Integers, Sequences, FiniteSets, TLC

\* ------------------------------------------------------------- bounds

\* Number of independent relayer processes.
NumRelayers == 2
\* Number of distinct 80-byte block headers in play.
NumHeaders == 3
\* Largest starting height handed to initialize (heights 0..MaxInitHeight).
MaxInitHeight == 1
\* Longest batch handed to submit_block_header_batch.
MaxBatch == 2
\* Gateway calls made in one run, over all relayers.
MaxCalls == 2

Relayers == 1..NumRelayers
\* A header is identified by a number standing for its 80 bytes.
Headers == 1..NumHeaders
InitHeights == 0..MaxInitHeight

\* ------------------------------------------------------- hashes (H256Le)

\* Bytes of a hash kept by the model (a 32-byte hash cut to HashLen bytes).
HashLen == 2

\* Requests the faucet's HTTP server receives in a run.
MaxRequests == 6

\* The height gap below which the relay driver stops catching up.
Margin == 1

\* Bytes of an account id kept by the model (body_len = 32 cut to BodyLen).
BodyLen == 2

\* const CHECKSUM_LEN: usize = 2.
ChecksumLen == 2

Reverse(s) == [i \in 1..Len(s) |-> s[Len(s) + 1 - i]]

\* H256Le keeps its bytes in little-endian order.
FromBytesLe(bytes) == [content |-> bytes]
FromBytesBe(bytes) == [content |-> Reverse(bytes)]
ToBytesLe(hash) == hash.content

\* H256Le::zero() and H256Le::is_zero().
ZeroHash == [content |-> [i \in 1..HashLen |-> 0]]
IsZero(hash) == \A i \in 1..Len(hash.content) : hash.content[i] = 0

\* RawBlockHeader::hash(): the double SHA-256 of the header bytes. Injective
\* on Headers, never zero, and no hash is the byte-reversal of a hash.
BlockHash(header) ==
    [content |-> [i \in 1..HashLen |-> IF i = 1 THEN header ELSE 2 * header + i - 1]]

\* ------------------------------------------------- remote light client

\* The default StorageValue/StorageMap values of the remote pallet.
DefaultHeader == [block_height |-> 0]
EmptyRelay ==
    [best_block |-> ZeroHash, best_block_height |-> 0,
     block_headers |-> [h \in {} |-> DefaultHeader], chain |-> [k \in {} |-> ZeroHash]]

\* BtcRelayPallet::get_best_block, get_best_block_height, get_block_header:
\* plain storage reads; a map read of an absent key yields the default.
GetBestBlock(st) == st.best_block
GetBestBlockHeight(st) == st.best_block_height
GetBlockHeader(st, hash) ==
    IF hash \in DOMAIN st.block_headers THEN st.block_headers[hash] ELSE DefaultHeader

IsKnown(st, header) == BlockHash(header) \in DOMAIN st.block_headers

\* The remote client accepts initialize only while uninitialized.
CanInitialize(st) == IsZero(st.best_block)
InitializeRelay(st, header, height) ==
    [best_block |-> BlockHash(header), best_block_height |-> height,
     block_headers |-> (BlockHash(header) :> [block_height |-> height]),
     chain |-> (height :> BlockHash(header))]

\* One header accepted by the remote client: a known header is a no-op, a new
\* one extends the best chain by one (no contiguity rejection).
StoreOne(st, header) ==
    IF IsKnown(st, header) THEN st
    ELSE [best_block |-> BlockHash(header),
          best_block_height |-> st.best_block_height + 1,
          block_headers |-> st.block_headers @@
              (BlockHash(header) :> [block_height |-> st.best_block_height + 1]),
          chain |-> st.chain @@ (st.best_block_height + 1 :> BlockHash(header))]

RECURSIVE StoreAll(_, _)
StoreAll(st, headers) ==
    IF headers = <<>> THEN st
    ELSE StoreAll(StoreOne(st, Head(headers)), Tail(headers))

\* The remote client accepts headers only once initialized.
CanStore(st) == ~IsZero(st.best_block)

\* ------------------------------------------------------------- gateway

\* RawBlockHeader(header): the wrapper handed to the remote write.
RawBlockHeader(header) == header

\* Bug variant: the negation is dropped, Ok(hash.is_zero()).
MutIsInitialized(st) == IsZero(GetBestBlock(st))

\* is_initialized(): Ok(!hash.is_zero()).
IsInitialized(st) == ~IsZero(GetBestBlock(st))

\* Bug variant: the hash bytes are read as big-endian.
MutIsBlockStored(st, hash_le) ==
    GetBlockHeader(st, FromBytesBe(hash_le)).block_height > 0

\* Bug variant: only the header at the tip of the chain is reported stored.
MutIsBlockStoredTipOnly(st, hash_le) ==
    /\ GetBlockHeader(st, FromBytesLe(hash_le)).block_height > 0
    /\ GetBestBlock(st) = FromBytesLe(hash_le)

\* is_block_stored(hash_le): Ok(head.block_height > 0).
IsBlockStored(st, hash_le) == GetBlockHeader(st, FromBytesLe(hash_le)).block_height > 0

\* The argument submit_block_header passes to is_block_stored.
RecheckArg(header) == ToBytesLe(BlockHash(RawBlockHeader(header)))

\* Bug variant: the height reported is one above the remote client's.
MutGetBestHeightAhead(st) == GetBestBlockHeight(st) + 1

\* get_best_height().
GetBestHeight(st) == GetBestBlockHeight(st)

\* H256Le::to_hex_le / to_hex_be: two hex digits a byte, in little-endian
\* (stored) or big-endian (reversed) byte order. A digit is its value 0..15.
HexOf(bytes) ==
    [i \in 1..(2 * Len(bytes)) |->
        IF i % 2 = 1 THEN bytes[(i + 1) \div 2] \div 16 ELSE bytes[i \div 2] % 16]
ToHexLe(hash) == HexOf(hash.content)
ToHexBe(hash) == HexOf(Reverse(hash.content))

\* hex::decode: an odd number of digits is an error, else a byte per two digits.
HexDecode(hex) ==
    IF Len(hex) % 2 = 1 THEN [ok |-> FALSE, value |-> <<>>]
    ELSE [ok |-> TRUE,
          value |-> [i \in 1..(Len(hex) \div 2) |-> 16 * hex[2 * i - 1] + hex[2 * i]]]

\* BtcRelayPallet::get_block_hash: the hash on the remote chain at a height,
\* the default (zero) hash where there is none.
GetBlockHashAt(st, height) ==
    IF height \in DOMAIN st.chain THEN st.chain[height] ELSE ZeroHash

\* Bug variant: the hash is rendered big-endian before it is decoded.
MutGetBlockHash(st, height) == HexDecode(ToHexBe(GetBlockHashAt(st, height)))

\* get_block_hash(height): hex::decode(hash.to_hex_le()), a failure being
\* Error::DecodeHash.
GetBlockHash(st, height) == HexDecode(ToHexLe(GetBlockHashAt(st, height)))

\* sha256::Hash::hash(header): the single SHA-256 of the raw header bytes,
\* cut to HashLen bytes; a function of the header bytes alone.
Sha256(header) ==
    [i \in 1..HashLen |-> (7 * header + 3 * i) % 256]

\* Bug variant: the seed is mixed with the identity of the calling relayer.
MutDelaySeedPerRelayer(r, header) ==
    [i \in 1..HashLen |-> (Sha256(header)[i] + r) % 256]

\* The seed relayer r hands to random_delay.delay for a header:
\* &sha256::Hash::hash(header.as_slice()).into_inner().
DelaySeed(r, header) == Sha256(header)

\* The payload of submit_block_header's remote write.
SinglePayload(header) == <<RawBlockHeader(header)>>

\* Bug variants: the batch is sent in reverse order; only its first header is sent.
MutBatchPayloadReversed(headers) == [i \in 1..Len(headers) |-> RawBlockHeader(headers[Len(headers) + 1 - i])]
MutBatchPayloadFirst(headers) == <<RawBlockHeader(headers[1])>>

\* The payload of submit_block_header_batch's remote write:
\* headers.iter().map(RawBlockHeader).collect().
BatchPayload(headers) == [i \in 1..Len(headers) |-> RawBlockHeader(headers[i])]

\* ------------------------------------------------- SS58 (AccountId32)

\* u16 / u8 bit operations.
RECURSIVE BitAnd(_, _)
BitAnd(a, b) ==
    IF a = 0 \/ b = 0 THEN 0
    ELSE (a % 2) * (b % 2) + 2 * BitAnd(a \div 2, b \div 2)

RECURSIVE BitOr(_, _)
BitOr(a, b) ==
    IF a = 0 THEN b
    ELSE IF b = 0 THEN a
    ELSE (IF a % 2 = 1 \/ b % 2 = 1 THEN 1 ELSE 0) + 2 * BitOr(a \div 2, b \div 2)

Shr(a, n) == a \div (2 ^ n)
AsU8(a) == a % 256
ShlU8(a, n) == (a * (2 ^ n)) % 256

\* Sequence helpers.
WeightedSum(s) ==
    LET RECURSIVE Go(_)
        Go(i) == IF i = 0 THEN 0 ELSE s[i] * i + Go(i - 1)
    IN Go(Len(s))

LeadingZeros(s) ==
    LET RECURSIVE Go(_)
        Go(i) == IF i > Len(s) \/ s[i] # 0 THEN 0 ELSE 1 + Go(i + 1)
    IN Go(1)

Zeros(n) == [i \in 1..n |-> 0]

\* base58's ToBase58: the bytes read as a big-endian number and written in
\* base 58, one zero digit ('1') per leading zero byte. A digit is its value
\* 0..57. The division is done on the byte sequence, a byte at a time.
DivBy58(bytes) ==
    LET RECURSIVE Go(_, _)
        Go(i, rem) ==
            IF i > Len(bytes) THEN [quot |-> <<>>, rem |-> rem]
            ELSE LET cur == rem * 256 + bytes[i]
                     rest == Go(i + 1, cur % 58)
                 IN [quot |-> <<cur \div 58>> \o rest.quot, rem |-> rest.rem]
    IN Go(1, 0)

RECURSIVE Base58Digits(_)
Base58Digits(bytes) ==
    LET number == SubSeq(bytes, LeadingZeros(bytes) + 1, Len(bytes))
    IN IF number = <<>> THEN <<>>
       ELSE LET d == DivBy58(number)
            IN Base58Digits(d.quot) \o <<d.rem>>

ToBase58(bytes) == Zeros(LeadingZeros(bytes)) \o Base58Digits(bytes)

\* base58's FromBase58: the inverse; a digit outside the alphabet is an error.
TimesPlus(bytes, digit) ==
    LET RECURSIVE Go(_, _)
        Go(i, carry) ==
            IF i = 0 THEN (IF carry = 0 THEN <<>> ELSE <<carry>>)
            ELSE LET cur == bytes[i] * 58 + carry
                 IN Go(i - 1, cur \div 256) \o <<cur % 256>>
    IN Go(Len(bytes), digit)

Base58Number(digits) ==
    LET RECURSIVE Go(_)
        Go(i) == IF i = 0 THEN <<>> ELSE TimesPlus(Go(i - 1), digits[i])
    IN Go(Len(digits))

FromBase58(digits) ==
    IF \E i \in 1..Len(digits) : digits[i] \notin 0..57
    THEN [ok |-> FALSE, value |-> <<>>]
    ELSE [ok |-> TRUE,
          value |-> Zeros(LeadingZeros(digits)) \o Base58Number(digits)]

\* b"SS58PRE".
Ss58Pre == <<83, 83, 53, 56, 80, 82, 69>>

\* Blake2b512, as a digest of ChecksumLen + 1 bytes that depends on every byte
\* and on the length of its input.
Blake2b512(bytes) ==
    [i \in 1..(ChecksumLen + 1) |->
        (WeightedSum(bytes) * i + 17 * i + Len(bytes)) % 256]

\* ss58hash(data): Blake2b512 over PREFIX, then data.
Ss58hash(data) == Blake2b512(Ss58Pre \o data)

\* The ident: SS58_PREFIX & 0b0011_1111_1111_1111.
Ident(prefix) == BitAnd(prefix, 16383)

\* Bug variant: the two-byte form is written without its 0b01000000 marker.
MutPrefixBytesNoMarker(ident) ==
    IF ident \in 0..63 THEN <<AsU8(ident)>>
    ELSE <<Shr(AsU8(BitAnd(ident, 252)), 2),
           BitOr(AsU8(Shr(ident, 8)), ShlU8(AsU8(BitAnd(ident, 3)), 6))>>

\* to_ss58check's match on the ident: one byte for 0..=63, two for 64..=16383.
PrefixBytes(ident) ==
    IF ident \in 0..63 THEN <<AsU8(ident)>>
    ELSE IF ident \in 64..16383
    THEN LET first == Shr(AsU8(BitAnd(ident, 252)), 2)
             second == BitOr(AsU8(Shr(ident, 8)), ShlU8(AsU8(BitAnd(ident, 3)), 6))
         IN <<BitOr(first, 64), second>>
    ELSE <<>>

\* to_ss58check: prefix bytes, account bytes, r[0..2] of ss58hash, in base 58.
ToSs58check(account, prefix) ==
    LET v == PrefixBytes(Ident(prefix)) \o account
        r == Ss58hash(v)
    IN ToBase58(v \o SubSeq(r, 1, 2))

\* Bug variant: the one-byte range of the first byte is taken one too wide.
MutPrefixLenOffByOne(byte) ==
    IF byte \in 0..64 THEN 1
    ELSE IF byte \in 65..127 THEN 2
    ELSE 0

\* from_ss58check's match on data[0]: the prefix length, 0 for InvalidPrefix.
PrefixLen(byte) ==
    IF byte \in 0..63 THEN 1
    ELSE IF byte \in 64..127 THEN 2
    ELSE 0

Ss58Err(err) == [result |-> err, account |-> <<>>, prefix_len |-> 0]

\* from_ss58check(s).
FromSs58check(s) ==
    LET decoded == FromBase58(s)
        data == decoded.value
    IN IF ~decoded.ok THEN Ss58Err("BadBase58")
       ELSE IF Len(data) < 2 THEN Ss58Err("BadLength")
       ELSE LET prefix_len == PrefixLen(data[1])
            IN IF prefix_len = 0 THEN Ss58Err("InvalidPrefix")
               ELSE IF Len(data) # prefix_len + BodyLen + ChecksumLen
               THEN Ss58Err("BadLength")
               ELSE IF SubSeq(data, BodyLen + prefix_len + 1,
                              BodyLen + prefix_len + ChecksumLen)
                       # SubSeq(Ss58hash(SubSeq(data, 1, BodyLen + prefix_len)),
                                1, ChecksumLen)
               THEN Ss58Err("InvalidChecksum")
               ELSE [result |-> "Ok",
                     account |-> SubSeq(data, prefix_len + 1, BodyLen + prefix_len),
                     prefix_len |-> prefix_len]

\* The reference encoding (sp_core's to_ss58check_with_version): the 14-bit
\* identifier in one byte below 64, else in two bytes, 01 then its bits 2..7,
\* and its bits 0..1 then its bits 8..13; the account; the first two bytes of
\* the SS58PRE hash of both; all in base 58.
RefPrefixBytes(ident) ==
    IF ident < 64 THEN <<ident>>
    ELSE <<64 + (ident % 256) \div 4, (ident % 4) * 64 + ident \div 256>>

ReferenceSs58(account, prefix) ==
    LET body == RefPrefixBytes(prefix % 16384) \o account
        hash == Ss58hash(body)
    IN ToBase58(body \o <<hash[1], hash[2]>>)

\* --------------------------------------------------------------- state

VARIABLES
    relay,    \* the remote light client's state
    pc,       \* per relayer: idle, delay, recheck, store, done (in submit_block_header)
    hdr,      \* per relayer: the header of its submit_block_header call
    seeds,    \* per relayer: the seeds that call handed to the delay policy, in order
    log,      \* per relayer: what that call did, in order
    result,   \* per relayer: none, Ok, Err, Cancelled
    delta,    \* per relayer: best-height change made by that call's remote write
    again,    \* per relayer: the call repeats the relayer's last, successful submit
    late,     \* per relayer: at the recheck another call's write of the header had completed
    last,     \* the last initialize or submit_block_header_batch call, whoever made it
    initOk,   \* an initialize call has succeeded
    ncalls,   \* gateway calls made so far
    driver,   \* the relay driver: its lifecycle state and local chain view
    ss58,     \* the SS58 codec: the account and prefix under conversion, and the results
    faucet    \* the faucet service: its position in start, the shutdown signal, the HTTP server

vars ==
    <<relay, pc, hdr, seeds, log, result, delta, again, late, last, initOk, ncalls,
      driver, ss58, faucet>>

NoCall ==
    [op |-> "none", header |-> 0, height |-> 0, headers |-> <<>>, log |-> <<>>,
     result |-> "none", sent |-> <<>>, delta |-> 0, fresh |-> FALSE]

\* The trusted checkpoint header an earlier run of the relay started from.
Checkpoint == CHOOSE header \in Headers : \A other \in Headers : header <= other

\* The remote client is found uninitialized, or as an earlier initialize with
\* the checkpoint header left it.
InitialRelays ==
    {EmptyRelay} \cup
    {InitializeRelay(EmptyRelay, Checkpoint, height) : height \in InitHeights}

\* The parts of the system a run of the gateway leaves alone.
NoDriver == [state |-> "off", start |-> 0, local |-> 0, seen |-> 0]
NoSS58 ==
    [step |-> "off", account |-> <<>>, prefix |-> 0, text |-> <<>>,
     back |-> [result |-> "none", account |-> <<>>, prefix_len |-> 0]]
NoFaucet ==
    [pc |-> "off", shutdown |-> FALSE, http |-> "down", nclose |-> 0,
     pending |-> 0, served |-> 0, run |-> "none", result |-> "none"]

Init ==
    /\ relay \in InitialRelays
    /\ pc = [r \in Relayers |-> "idle"]
    /\ hdr = [r \in Relayers |-> 0]
    /\ seeds = [r \in Relayers |-> <<>>]
    /\ log = [r \in Relayers |-> <<>>]
    /\ result = [r \in Relayers |-> "none"]
    /\ delta = [r \in Relayers |-> 0]
    /\ again = [r \in Relayers |-> FALSE]
    /\ late = [r \in Relayers |-> FALSE]
    /\ last = NoCall
    /\ initOk = FALSE
    /\ ncalls = 0
    /\ driver = NoDriver
    /\ ss58 = NoSS58
    /\ faucet = NoFaucet

Free(r) == pc[r] \in {"idle", "done"}

Distinct(s) == \A i, j \in 1..Len(s) : s[i] = s[j] => i = j

Events(l) == {l[i] : i \in 1..Len(l)}
Count(l, evs) == Cardinality({i \in 1..Len(l) : l[i] \in evs})
DelayEvents == {"delay_ok", "delay_cancel"}
QueryEvents == {"query_true", "query_false", "query_err"}
WriteEvents == {"write_ok", "write_err"}
ErrorEvents == {"delay_cancel", "query_err", "write_err"}

\* Another relayer's submit_block_header of the same header has completed its
\* remote write.
WrittenByOther(r) ==
    \E o \in Relayers \ {r} : hdr[o] = hdr[r] /\ "write_ok" \in Events(log[o])

\* ------------------------------------------------- submit_block_header

\* Bug variant: the call skips the delay and goes straight to the recheck.
MutSubmitStartNoDelay(r, header) ==
    /\ Free(r)
    /\ ncalls < MaxCalls
    /\ ncalls' = ncalls + 1
    /\ pc' = [pc EXCEPT ![r] = "recheck"]
    /\ hdr' = [hdr EXCEPT ![r] = header]
    /\ seeds' = [seeds EXCEPT ![r] = <<DelaySeed(r, header)>>]
    /\ again' = [again EXCEPT ![r] = hdr[r] = header /\ result[r] = "Ok"]
    /\ log' = [log EXCEPT ![r] = <<>>]
    /\ result' = [result EXCEPT ![r] = "none"]
    /\ delta' = [delta EXCEPT ![r] = 0]
    /\ late' = [late EXCEPT ![r] = FALSE]
    /\ UNCHANGED <<relay, last, initOk, driver, ss58, faucet>>

\* The call is entered and suspends in random_delay.delay(seed).
SubmitStart(r, header) ==
    /\ Free(r)
    /\ ncalls < MaxCalls
    /\ ncalls' = ncalls + 1
    /\ pc' = [pc EXCEPT ![r] = "delay"]
    /\ hdr' = [hdr EXCEPT ![r] = header]
    /\ seeds' = [seeds EXCEPT ![r] = <<DelaySeed(r, header)>>]
    /\ again' = [again EXCEPT ![r] = hdr[r] = header /\ result[r] = "Ok"]
    /\ log' = [log EXCEPT ![r] = <<>>]
    /\ result' = [result EXCEPT ![r] = "none"]
    /\ delta' = [delta EXCEPT ![r] = 0]
    /\ late' = [late EXCEPT ![r] = FALSE]
    /\ UNCHANGED <<relay, last, initOk, driver, ss58, faucet>>

\* The delay completes: `.await?` yields Ok and the call goes on to the recheck.
DelayDone(r) ==
    /\ pc[r] = "delay"
    /\ pc' = [pc EXCEPT ![r] = "recheck"]
    /\ log' = [log EXCEPT ![r] = Append(@, "delay_ok")]
    /\ UNCHANGED <<relay, hdr, seeds, result, delta, again, late, last, initOk, ncalls, driver, ss58, faucet>>

\* Bug variant: the delay's outcome is discarded and the call goes on.
MutDelayCancelIgnored(r) ==
    /\ pc[r] = "delay"
    /\ pc' = [pc EXCEPT ![r] = "recheck"]
    /\ log' = [log EXCEPT ![r] = Append(@, "delay_cancel")]
    /\ result' = [result EXCEPT ![r] = "Cancelled"]
    /\ UNCHANGED <<relay, hdr, seeds, delta, again, late, last, initOk, ncalls, driver, ss58, faucet>>

\* Shutdown fires during the delay: the delay does not complete and `?` (or the
\* drop of the suspended future) ends the call there.
DelayCancel(r) ==
    /\ pc[r] = "delay"
    /\ pc' = [pc EXCEPT ![r] = "done"]
    /\ log' = [log EXCEPT ![r] = Append(@, "delay_cancel")]
    /\ result' = [result EXCEPT ![r] = "Cancelled"]
    /\ UNCHANGED <<relay, hdr, seeds, delta, again, late, last, initOk, ncalls, driver, ss58, faucet>>

\* Bug variant: the gate is inverted, a header not yet stored ends the call
\* and a stored one is written again.
MutRecheckInverted(r) ==
    /\ pc[r] = "recheck"
    /\ late' = [late EXCEPT ![r] = WrittenByOther(r)]
    /\ \E ok \in BOOLEAN :
         IF ~ok
         THEN /\ pc' = [pc EXCEPT ![r] = "done"]
              /\ log' = [log EXCEPT ![r] = Append(@, "query_err")]
              /\ result' = [result EXCEPT ![r] = "Err"]
         ELSE IF ~IsBlockStored(relay, RecheckArg(hdr[r]))
         THEN /\ pc' = [pc EXCEPT ![r] = "done"]
              /\ log' = [log EXCEPT ![r] = Append(@, "query_false")]
              /\ result' = [result EXCEPT ![r] = "Ok"]
         ELSE /\ pc' = [pc EXCEPT ![r] = "store"]
              /\ log' = [log EXCEPT ![r] = Append(@, "query_true")]
              /\ UNCHANGED result
    /\ UNCHANGED <<relay, hdr, seeds, delta, again, last, initOk, ncalls, driver, ss58, faucet>>

\* Bug variant: the recheck's answer is not acted on, the write always follows.
MutRecheckNoGate(r) ==
    /\ pc[r] = "recheck"
    /\ late' = [late EXCEPT ![r] = WrittenByOther(r)]
    /\ \E ok \in BOOLEAN :
         IF ~ok
         THEN /\ pc' = [pc EXCEPT ![r] = "done"]
              /\ log' = [log EXCEPT ![r] = Append(@, "query_err")]
              /\ result' = [result EXCEPT ![r] = "Err"]
         ELSE /\ pc' = [pc EXCEPT ![r] = "store"]
              /\ log' = [log EXCEPT ![r] = Append(@,
                     IF IsBlockStored(relay, RecheckArg(hdr[r]))
                     THEN "query_true" ELSE "query_false")]
              /\ UNCHANGED result
    /\ UNCHANGED <<relay, hdr, seeds, delta, again, last, initOk, ncalls, driver, ss58, faucet>>

\* Bug variant: a failed recheck is taken as "not stored" (unwrap_or(false)).
MutRecheckErrAsFalse(r) ==
    /\ pc[r] = "recheck"
    /\ late' = [late EXCEPT ![r] = WrittenByOther(r)]
    /\ \E ok \in BOOLEAN :
         IF ~ok
         THEN /\ pc' = [pc EXCEPT ![r] = "store"]
              /\ log' = [log EXCEPT ![r] = Append(@, "query_err")]
              /\ UNCHANGED result
         ELSE IF IsBlockStored(relay, RecheckArg(hdr[r]))
         THEN /\ pc' = [pc EXCEPT ![r] = "done"]
              /\ log' = [log EXCEPT ![r] = Append(@, "query_true")]
              /\ result' = [result EXCEPT ![r] = "Ok"]
         ELSE /\ pc' = [pc EXCEPT ![r] = "store"]
              /\ log' = [log EXCEPT ![r] = Append(@, "query_false")]
              /\ UNCHANGED result
    /\ UNCHANGED <<relay, hdr, seeds, delta, again, last, initOk, ncalls, driver, ss58, faucet>>

\* self.is_block_stored(hash).await? : the query fails (Err is returned), or
\* reports the header stored (return Ok(())), or not stored (go on to the write).
Recheck(r) ==
    /\ pc[r] = "recheck"
    /\ late' = [late EXCEPT ![r] = WrittenByOther(r)]
    /\ \E ok \in BOOLEAN :
         IF ~ok
         THEN /\ pc' = [pc EXCEPT ![r] = "done"]
              /\ log' = [log EXCEPT ![r] = Append(@, "query_err")]
              /\ result' = [result EXCEPT ![r] = "Err"]
         ELSE IF IsBlockStored(relay, RecheckArg(hdr[r]))
         THEN /\ pc' = [pc EXCEPT ![r] = "done"]
              /\ log' = [log EXCEPT ![r] = Append(@, "query_true")]
              /\ result' = [result EXCEPT ![r] = "Ok"]
         ELSE /\ pc' = [pc EXCEPT ![r] = "store"]
              /\ log' = [log EXCEPT ![r] = Append(@, "query_false")]
              /\ UNCHANGED result
    /\ UNCHANGED <<relay, hdr, seeds, delta, again, last, initOk, ncalls, driver, ss58, faucet>>

\* BtcRelayPallet::store_block_header(self, raw_block_header).await.map_err(..):
\* one remote write, whose outcome is the call's result.
Store(r) ==
    /\ pc[r] = "store"
    /\ pc' = [pc EXCEPT ![r] = "done"]
    /\ \E ok \in BOOLEAN :
         IF ok /\ CanStore(relay)
         THEN /\ relay' = StoreAll(relay, SinglePayload(hdr[r]))
              /\ log' = [log EXCEPT ![r] = Append(@, "write_ok")]
              /\ result' = [result EXCEPT ![r] = "Ok"]
         ELSE /\ log' = [log EXCEPT ![r] = Append(@, "write_err")]
              /\ result' = [result EXCEPT ![r] = "Err"]
              /\ UNCHANGED relay
    /\ delta' = [delta EXCEPT ![r] = GetBestHeight(relay') - GetBestHeight(relay)]
    /\ UNCHANGED <<hdr, seeds, again, late, last, initOk, ncalls, driver, ss58, faucet>>

\* ------------------------------------------ initialize and batch submit

\* initialize(header, height): one remote write, its outcome returned.
Initialize(header, height) ==
    /\ ncalls < MaxCalls
    /\ ncalls' = ncalls + 1
    /\ \E ok \in BOOLEAN :
         IF ok /\ CanInitialize(relay)
         THEN /\ relay' = InitializeRelay(relay, RawBlockHeader(header), height)
              /\ last' = [NoCall EXCEPT !.op = "initialize", !.header = header,
                                        !.height = height, !.log = <<"write_ok">>,
                                        !.result = "Ok", !.sent = <<RawBlockHeader(header)>>]
              /\ initOk' = TRUE
         ELSE /\ UNCHANGED <<relay, initOk>>
              /\ last' = [NoCall EXCEPT !.op = "initialize", !.header = header,
                                        !.height = height, !.log = <<"write_err">>,
                                        !.result = "Err", !.sent = <<RawBlockHeader(header)>>]
    /\ UNCHANGED <<pc, hdr, seeds, log, result, delta, again, late, driver, ss58, faucet>>

\* submit_block_header_batch(headers): one remote write carrying the mapped
\* headers, its outcome returned.
SubmitBatch(headers) ==
    /\ ncalls < MaxCalls
    /\ ncalls' = ncalls + 1
    /\ \E ok \in BOOLEAN :
         /\ IF ok /\ CanStore(relay)
            THEN relay' = StoreAll(relay, BatchPayload(headers))
            ELSE UNCHANGED relay
         /\ last' = [NoCall EXCEPT
                !.op = "batch", !.headers = headers,
                !.log = IF ok /\ CanStore(relay) THEN <<"write_ok">> ELSE <<"write_err">>,
                !.result = IF ok /\ CanStore(relay) THEN "Ok" ELSE "Err",
                !.sent = BatchPayload(headers),
                !.delta = GetBestHeight(relay') - GetBestHeight(relay),
                !.fresh = Distinct(headers)
                          /\ \A i \in 1..Len(headers) : ~IsKnown(relay, headers[i])]
    /\ UNCHANGED <<pc, hdr, seeds, log, result, delta, again, late, initOk, driver, ss58, faucet>>

\* The batches handed in: up to MaxBatch headers, no header twice.
Batches == {headers \in UNION {[1..n -> Headers] : n \in 1..MaxBatch} : Distinct(headers)}

Next ==
    \/ \E r \in Relayers :
        \/ \E header \in Headers : SubmitStart(r, header)
        \/ DelayDone(r)
        \/ DelayCancel(r)
        \/ Recheck(r)
        \/ Store(r)
    \/ \E header \in Headers, height \in InitHeights : Initialize(header, height)
    \/ \E headers \in Batches : SubmitBatch(headers)

Spec == Init /\ [][Next]_vars

\* ------------------------------------- submit_block_header, failure-free
\* Every relayer calls submit_block_header once, all with the same header, on
\* an initialized remote client; no delay is cancelled and no remote call fails.

InitLive ==
    /\ Init
    /\ IsInitialized(relay)

\* Relayer r makes its one call, with the header the others submit too.
LiveStart(r, header) ==
    /\ pc[r] = "idle"
    /\ \A other \in Relayers : pc[other] # "idle" => hdr[other] = header
    /\ SubmitStart(r, header)

\* The recheck query is answered.
LiveRecheck(r) ==
    /\ Recheck(r)
    /\ result'[r] # "Err"

\* The write is accepted (as a no-op if the header is a duplicate).
LiveStore(r) ==
    /\ Store(r)
    /\ result'[r] = "Ok"

LiveStep(r) ==
    \/ \E header \in Headers : LiveStart(r, header)
    \/ DelayDone(r)
    \/ LiveRecheck(r)
    \/ LiveStore(r)

NextLive == \E r \in Relayers : LiveStep(r)

\* Fair scheduling: a relayer whose call can take its next step takes it.
SpecLive ==
    /\ InitLive
    /\ [][NextLive]_vars
    /\ \A r \in Relayers : WF_vars(LiveStep(r))

\* --------------------------------------------------------- relay driver
\* One relay driver over the gateway: Uninitialized, CatchingUp, TrackingTip.
\* Its local chain is the headers 1, 2, .. from the checkpoint's height on.

gatewayVars ==
    <<relay, pc, hdr, seeds, log, result, delta, again, late, last, initOk, ncalls>>

InitDriver == Init

DriverRelayer == CHOOSE r \in Relayers : \A other \in Relayers : r <= other

\* The height of the driver's local chain tip.
LocalTip(d) == d.start + d.local - 1

\* The local header at a height.
LocalHeader(d, height) == height - d.start + 1

\* The gap the driver computes from get_best_height.
Gap(d, st) == LocalTip(d) - GetBestHeight(st)

\* The gap between the local tip and the remote client's best height.
TrueGap(d, st) == LocalTip(d) - GetBestBlockHeight(st)

\* The next batch: the local headers above the remote best height, at most
\* MaxBatch of them.
NextBatch(d, st) ==
    LET first == GetBestHeight(st) + 1
        n == IF LocalTip(d) - first + 1 > MaxBatch THEN MaxBatch
             ELSE LocalTip(d) - first + 1
    IN  [i \in 1..n |-> LocalHeader(d, first + i - 1)]

\* The driver starts: it learns its local chain and asks is_initialized().
DriverBoot ==
    /\ driver.state = "off"
    /\ \E local \in 1..NumHeaders, height \in InitHeights :
         /\ IsInitialized(relay) => height = GetBestBlockHeight(relay)
         /\ driver' = [state |-> IF IsInitialized(relay) THEN "CatchingUp"
                                 ELSE "Uninitialized",
                       start |-> height, local |-> local, seen |-> ncalls]
    /\ UNCHANGED <<gatewayVars, ss58, faucet>>

\* A new Bitcoin block is observed locally.
NewBlock ==
    /\ driver.state # "off"
    /\ driver.local < NumHeaders
    /\ driver' = [driver EXCEPT !.local = @ + 1]
    /\ UNCHANGED <<gatewayVars, ss58, faucet>>

\* Uninitialized: is_initialized() is false, initialize is called with the
\* checkpoint header and height.
DriverInitialize ==
    /\ driver.state = "Uninitialized"
    /\ driver.seen = ncalls
    /\ ~IsInitialized(relay)
    /\ Initialize(Checkpoint, driver.start)

\* CatchingUp: the gap is not below the margin, the next batch is submitted.
DriverBatch ==
    /\ driver.state = "CatchingUp"
    /\ driver.seen = ncalls
    /\ Gap(driver, relay) >= Margin
    /\ SubmitBatch(NextBatch(driver, relay))

\* TrackingTip: the next header is submitted through submit_block_header.
DriverSubmit ==
    /\ driver.state = "TrackingTip"
    /\ driver.seen = ncalls
    /\ Gap(driver, relay) >= 1
    /\ SubmitStart(DriverRelayer, LocalHeader(driver, GetBestHeight(relay) + 1))

\* The driver takes the outcome of its call: a successful initialize moves it
\* from Uninitialized to CatchingUp; any failure is left to the next round.
DriverObserve ==
    /\ driver.state # "off"
    /\ driver.seen < ncalls
    /\ Free(DriverRelayer)
    /\ driver' = [driver EXCEPT
            !.seen = ncalls,
            !.state = IF driver.state = "Uninitialized"
                         /\ last.op = "initialize" /\ last.result = "Ok"
                      THEN "CatchingUp" ELSE @]
    /\ UNCHANGED <<gatewayVars, ss58, faucet>>

\* CatchingUp: the gap has closed below the margin, the driver tracks the tip.
DriverPromote ==
    /\ driver.state = "CatchingUp"
    /\ driver.seen = ncalls
    /\ Gap(driver, relay) < Margin
    /\ driver' = [driver EXCEPT !.state = "TrackingTip"]
    /\ UNCHANGED <<gatewayVars, ss58, faucet>>

NextDriver ==
    \/ DriverBoot
    \/ NewBlock
    \/ DriverInitialize
    \/ DriverBatch
    \/ DriverSubmit
    \/ DriverObserve
    \/ DriverPromote
    \/ DelayDone(DriverRelayer)
    \/ DelayCancel(DriverRelayer)
    \/ Recheck(DriverRelayer)
    \/ Store(DriverRelayer)

SpecDriver == InitDriver /\ [][NextDriver]_vars

\* ------------------------------------------------------- faucet service
\* FaucetService::start and run_service, the shutdown signal and the HTTP
\* server behind the close handle.

InitFaucet ==
    /\ Init
    /\ relay = EmptyRelay

\* new_service / new: the service is constructed around the shutdown receiver.
NewService ==
    /\ faucet.pc = "off"
    /\ faucet' = [faucet EXCEPT !.pc = "new"]
    /\ UNCHANGED <<gatewayVars, driver, ss58>>

\* start is called and awaits run_service.
Start ==
    /\ faucet.pc = "new"
    /\ faucet' = [faucet EXCEPT !.pc = "start_http"]
    /\ UNCHANGED <<gatewayVars, driver, ss58>>

\* http::start_http(..).await: the server is up and its close handle returned.
StartHttp ==
    /\ faucet.pc = "start_http"
    /\ faucet' = [faucet EXCEPT !.pc = "on_shutdown", !.http = "up"]
    /\ UNCHANGED <<gatewayVars, driver, ss58>>

\* The shutdown signal fires, at any moment of the service's life.
ShutdownFires ==
    /\ faucet.pc # "off"
    /\ ~faucet.shutdown
    /\ faucet' = [faucet EXCEPT !.shutdown = TRUE]
    /\ UNCHANGED <<gatewayVars, driver, ss58>>

\* Bug variant: the close handle is closed without waiting for the signal.
MutOnShutdownNoWait ==
    /\ faucet.pc = "on_shutdown"
    /\ faucet' = [faucet EXCEPT !.pc = "run_ok", !.http = "closed", !.nclose = @ + 1]
    /\ UNCHANGED <<gatewayVars, driver, ss58>>

\* on_shutdown(shutdown, async move { close_handle.close() }).await: once the
\* signal has fired the closure runs and closes the handle.
OnShutdown ==
    /\ faucet.pc = "on_shutdown"
    /\ faucet.shutdown
    /\ faucet' = [faucet EXCEPT !.pc = "run_ok", !.http = "closed", !.nclose = @ + 1]
    /\ UNCHANGED <<gatewayVars, driver, ss58>>

\* run_service's only exit: Ok(()).
RunServiceReturns ==
    /\ faucet.pc = "run_ok"
    /\ faucet' = [faucet EXCEPT !.pc = "match", !.run = "Ok"]
    /\ UNCHANGED <<gatewayVars, driver, ss58>>

\* start's match on what run_service returned.
StartResult(run) ==
    CASE run = "Ok" -> "Ok"
      [] run = "RuntimeError" -> "Err"
      [] OTHER -> "Err"

StartReturns ==
    /\ faucet.pc = "match"
    /\ faucet' = [faucet EXCEPT !.pc = "done", !.result = StartResult(faucet.run)]
    /\ UNCHANGED <<gatewayVars, driver, ss58>>

\* A request reaches the HTTP server while it is up.
RequestArrives ==
    /\ faucet.http = "up"
    /\ faucet.pending + faucet.served < MaxRequests
    /\ faucet' = [faucet EXCEPT !.pending = @ + 1]
    /\ UNCHANGED <<gatewayVars, driver, ss58>>

\* A request in flight is answered.
RequestServed ==
    /\ faucet.pending > 0
    /\ faucet' = [faucet EXCEPT !.pending = @ - 1, !.served = @ + 1]
    /\ UNCHANGED <<gatewayVars, driver, ss58>>

NextFaucet ==
    \/ NewService
    \/ Start
    \/ StartHttp
    \/ ShutdownFires
    \/ OnShutdown
    \/ RunServiceReturns
    \/ StartReturns
    \/ RequestArrives
    \/ RequestServed

SpecFaucet == InitFaucet /\ [][NextFaucet]_vars

\* ------------------------------------------------------------ SS58 codec
\* An account id is rendered by to_ss58check and read back by from_ss58check.

\* Byte values an account id is built from, and the values of SS58_PREFIX
\* tried: both one-byte and two-byte identifiers, the ends of each range, and
\* values whose upper two bits are masked out.
AccountBytes == {0, 1, 255}
Accounts == [1..BodyLen -> AccountBytes]
Prefixes == {0, 42, 63, 64, 127, 255, 256, 2032, 16383, 16426, 65535}

InitSS58 ==
    /\ Init
    /\ relay = EmptyRelay

\* AccountId32::new(value), in a build with the given SS58_PREFIX.
Ss58New(account, prefix) ==
    /\ ss58.step = "off"
    /\ ss58' = [ss58 EXCEPT !.step = "new", !.account = account, !.prefix = prefix]
    /\ UNCHANGED <<gatewayVars, driver, faucet>>

Ss58Encode ==
    /\ ss58.step = "new"
    /\ ss58' = [ss58 EXCEPT !.step = "encoded",
                            !.text = ToSs58check(ss58.account, ss58.prefix)]
    /\ UNCHANGED <<gatewayVars, driver, faucet>>

Ss58Decode ==
    /\ ss58.step = "encoded"
    /\ ss58' = [ss58 EXCEPT !.step = "decoded", !.back = FromSs58check(ss58.text)]
    /\ UNCHANGED <<gatewayVars, driver, faucet>>

NextSS58 ==
    \/ \E account \in Accounts, prefix \in Prefixes : Ss58New(account, prefix)
    \/ Ss58Encode
    \/ Ss58Decode

SpecSS58 == InitSS58 /\ [][NextSS58]_vars

\* ---------------------------------------------------------------- claims

\* The relayer's call went through without a failure of its environment: the
\* delay was not cancelled and the recheck query did not fail.
Undisturbed(r) == "delay_cancel" \notin Events(log[r]) /\ "query_err" \notin Events(log[r])

\* C1: a submit_block_header(H) that a relayer makes right after its own
\* successful submit_block_header(H) returns success and issues no remote
\* write: it never gets past the recheck to the write.
SecondSubmitWritesNothing ==
    \A r \in Relayers :
        (again[r] /\ Undisturbed(r)) =>
            /\ pc[r] # "store"
            /\ Events(log[r]) \cap WriteEvents = {}
            /\ (pc[r] = "done" => result[r] = "Ok")

\* C2: a relayer whose recheck comes after another relayer's remote write of
\* the same header has completed returns success and issues no remote write.
LateRelayerWritesNothing ==
    \A r \in Relayers :
        (late[r] /\ Undisturbed(r)) =>
            /\ pc[r] # "store"
            /\ Events(log[r]) \cap WriteEvents = {}
            /\ (pc[r] = "done" => result[r] = "Ok")

\* C3: a submit_block_header whose delay was cancelled is over at once; it made
\* no remote call, neither the recheck query nor the write, and changed nothing
\* on the remote client.
CancelledSubmitMakesNoRemoteCall ==
    \A r \in Relayers :
        result[r] = "Cancelled" =>
            /\ pc[r] = "done"
            /\ log[r] = <<"delay_cancel">>
            /\ delta[r] = 0

CancelledSubmitReached ==
    \E r \in Relayers : pc[r] = "done" /\ result[r] = "Cancelled" /\ IsInitialized(relay)

\* C4: within one submit_block_header the steps come in the order delay,
\* recheck, write: the delay is the call's first step, a recheck directly
\* follows the completed delay, and a write directly follows a recheck that
\* returned false.
DelayThenRecheckThenStore ==
    \A r \in Relayers :
        /\ pc[r] \in {"recheck", "store"} => log[r] # <<>>
        /\ \A i \in 1..Len(log[r]) :
            /\ log[r][i] \in DelayEvents => i = 1
            /\ log[r][i] \in QueryEvents => i = 2 /\ log[r][1] = "delay_ok"
            /\ log[r][i] \in WriteEvents => i = 3 /\ log[r][2] = "query_false"
        /\ pc[r] = "recheck" => log[r] = <<"delay_ok">>
        /\ pc[r] = "store" => log[r] = <<"delay_ok", "query_false">>

FullSubmitReached ==
    \E r \in Relayers :
        /\ log[r] = <<"delay_ok", "query_false", "write_ok">>
        /\ IsBlockStored(relay, RecheckArg(hdr[r]))

\* The heights at which the remote client holds the header.
HeightsOf(st, header) == {k \in DOMAIN st.chain : st.chain[k] = BlockHash(header)}

\* The relayer's submit_block_header went delay, recheck (false), write (accepted).
WroteAfterRecheck(r) == log[r] = <<"delay_ok", "query_false", "write_ok">>

\* C5: two relayers may both write the same header, each after a recheck that
\* returned false; the remote client, taking the duplicate as a no-op, then
\* holds the header at one height only, and the two writes together advance
\* the best height by at most one.
DuplicateWritesStoreOnce ==
    /\ \A header \in Headers : Cardinality(HeightsOf(relay, header)) <= 1
    /\ \A a, b \in Relayers :
        (a # b /\ hdr[a] = hdr[b]
              /\ "write_ok" \in Events(log[a]) /\ "write_ok" \in Events(log[b])) =>
            /\ WroteAfterRecheck(a) /\ WroteAfterRecheck(b)
            /\ Cardinality(HeightsOf(relay, hdr[a])) = 1
            /\ delta[a] + delta[b] <= 1

BothRelayersWrote ==
    \E a, b \in Relayers :
        /\ a # b /\ hdr[a] = hdr[b]
        /\ WroteAfterRecheck(a) /\ WroteAfterRecheck(b)
        /\ delta[a] + delta[b] = 1
        /\ IsBlockStored(relay, RecheckArg(hdr[a]))

\* C6: no call retries. A submit_block_header makes at most one query and at
\* most one write; a failed step is the call's last step and the call returns
\* the failure; initialize and submit_block_header_batch make exactly one
\* remote write and return its outcome.
GatewayNeverRetries ==
    /\ \A r \in Relayers :
        /\ Count(log[r], QueryEvents) <= 1
        /\ Count(log[r], WriteEvents) <= 1
        /\ \A i \in 1..Len(log[r]) :
              log[r][i] \in ErrorEvents =>
                  /\ i = Len(log[r])
                  /\ pc[r] = "done"
                  /\ result[r] = IF log[r][i] = "delay_cancel" THEN "Cancelled" ELSE "Err"
        /\ result[r] = "Ok" => Events(log[r]) \cap ErrorEvents = {}
    /\ last.op # "none" =>
        /\ Len(last.log) = 1
        /\ last.log[1] \in WriteEvents
        /\ last.result = IF last.log[1] = "write_ok" THEN "Ok" ELSE "Err"

FailedRecheckReached ==
    \E r \in Relayers :
        /\ log[r] = <<"delay_ok", "query_err">>
        /\ result[r] = "Err"
        /\ ~IsBlockStored(relay, RecheckArg(hdr[r]))
        /\ CanStore(relay)

\* C7: is_initialized() is false exactly when the remote best hash is the
\* all-zero hash, and it is true in every state after a successful initialize.
IsInitializedIffBestHashNonZero ==
    /\ IsInitialized(relay) <=> relay.best_block # ZeroHash
    /\ initOk => IsInitialized(relay)

\* A state after a successful initialize and a later accepted batch.
InitializedByCall ==
    /\ initOk
    /\ last.op = "batch"
    /\ last.result = "Ok"
    /\ IsInitialized(relay)

\* The byte strings is_block_stored is asked about: the hash of every header,
\* the same bytes reversed, and the all-zero hash.
ProbeHashes ==
    {ToBytesLe(BlockHash(header)) : header \in Headers}
        \cup {Reverse(ToBytesLe(BlockHash(header))) : header \in Headers}
        \cup {ToBytesLe(ZeroHash)}

BatchSentAsGiven ==
    last.op = "batch" =>
        /\ last.sent = last.headers
        /\ Len(last.log) = 1
        /\ Events(last.log) \cap (DelayEvents \cup QueryEvents) = {}
        /\ (last.result = "Ok" /\ last.fresh) =>
              \A i \in 1..Len(last.headers) :
                  GetBlockHeader(relay, BlockHash(last.headers[i])).block_height
                    = GetBlockHeader(relay, BlockHash(last.headers[1])).block_height + i - 1

UnsortedBatchReached ==
    /\ last.op = "batch"
    /\ last.result = "Ok"
    /\ last.fresh
    /\ Len(last.headers) = 2
    /\ last.headers[1] > last.headers[2]

\* C10: a successful batch of n distinct headers the remote client did not
\* hold advances the height get_best_height() returns by exactly n.
BatchAdvancesHeightByN ==
    (last.op = "batch" /\ last.result = "Ok" /\ last.fresh) =>
        last.delta = Len(last.headers)

FreshBatchReached ==
    /\ last.op = "batch"
    /\ last.result = "Ok"
    /\ last.fresh
    /\ Len(last.headers) = 2
    /\ last.delta = 2
    /\ GetBestHeight(relay) >= 2

\* C11: get_block_hash round-trips: for a header the remote client accepted
\* at height K, get_block_hash(K) returns the header's little-endian hash,
\* the very bytes submit_block_header hands to is_block_stored.
GetBlockHashRoundTrips ==
    \A header \in Headers :
        IsKnown(relay, header) =>
            GetBlockHash(relay, GetBlockHeader(relay, BlockHash(header)).block_height)
                = [ok |-> TRUE, value |-> RecheckArg(header)]

SubmittedHashReadBack ==
    \E r \in Relayers :
        /\ WroteAfterRecheck(r)
        /\ delta[r] = 1
        /\ GetBlockHeader(relay, BlockHash(hdr[r])).block_height = GetBestHeight(relay)
        /\ GetBlockHash(relay, GetBestHeight(relay)).value = RecheckArg(hdr[r])

\* C12: the remote client's state only advances: no step lowers the best
\* height, and a header is_block_stored reports stored stays reported stored.
RemoteStateOnlyAdvances ==
    [][/\ GetBestHeight(relay') >= GetBestHeight(relay)
       /\ \A header \in Headers :
            IsBlockStored(relay, RecheckArg(header)) =>
                IsBlockStored(relay', RecheckArg(header))]_vars

AdvancedPastStoredHeader ==
    \E a, b \in Headers :
        /\ a # b
        /\ IsBlockStored(relay, RecheckArg(a))
        /\ IsBlockStored(relay, RecheckArg(b))
        /\ GetBlockHeader(relay, BlockHash(a)).block_height < GetBestHeight(relay)
        /\ ncalls = MaxCalls

\* C13: the delay seed is a function of the header bytes alone: calls for the
\* same header hand the delay policy the same seed, whichever relayer makes
\* them and whatever the remote state is then; and each call invokes the
\* delay policy exactly once.
DelaySeedIsFunctionOfHeader ==
    /\ \A r \in Relayers :
          /\ pc[r] # "idle" => Len(seeds[r]) = 1
          /\ Count(log[r], DelayEvents) <= 1
          /\ pc[r] \in {"recheck", "store"} => Count(log[r], DelayEvents) = 1
          /\ (pc[r] = "done" /\ result[r] # "none") => Count(log[r], DelayEvents) = 1
    /\ \A a, b \in Relayers :
          (pc[a] # "idle" /\ pc[b] # "idle" /\ hdr[a] = hdr[b]) => seeds[a] = seeds[b]

SameHeaderSeededInDifferentStates ==
    \E a, b \in Relayers :
        /\ a # b
        /\ hdr[a] = hdr[b]
        /\ WroteAfterRecheck(a)
        /\ delta[a] = 1
        /\ late[b]
        /\ pc[b] = "done"
        /\ seeds[a] = seeds[b]
        /\ Len(seeds[b]) = 1

\* C16: every header the remote client accepted through a gateway call of this
\* run (initialize, submit_block_header, submit_block_header_batch) is
\* reported stored by is_block_stored afterwards, at every starting height,
\* height 0 included.
AcceptedHeaderReportedStored ==
    /\ (last.op = "initialize" /\ last.result = "Ok") =>
          IsBlockStored(relay, RecheckArg(last.header))
    /\ (last.op = "batch" /\ last.result = "Ok") =>
          \A i \in 1..Len(last.headers) :
              IsBlockStored(relay, RecheckArg(last.headers[i]))
    /\ \A r \in Relayers :
          "write_ok" \in Events(log[r]) => IsBlockStored(relay, RecheckArg(hdr[r]))

\* C17: convergence: when every relayer calls submit_block_header(H) once on
\* an initialized remote client, no delay is cancelled and no remote call
\* fails, then under fair scheduling the remote client eventually holds H
\* and every relayer's call has returned Ok, from then on.
Convergence ==
    <>[](\A r \in Relayers :
            /\ pc[r] = "done"
            /\ result[r] = "Ok"
            /\ IsKnown(relay, hdr[r]))

AllRelayersReturnedOk ==
    /\ \A r \in Relayers : pc[r] = "done" /\ result[r] = "Ok" /\ IsKnown(relay, hdr[r])
    /\ \E a, b \in Relayers :
          /\ WroteAfterRecheck(a)
          /\ delta[a] = 1
          /\ log[b] = <<"delay_ok", "query_true">>

\* C18: FaucetService::start does not complete before the shutdown signal has
\* fired; when it completes the HTTP server's close handle has been closed
\* exactly once, after the signal, and start returns Ok; start never returns
\* an error.
StartReturnsOkOnShutdownOnly ==
    /\ faucet.nclose <= 1
    /\ faucet.nclose = 1 => faucet.shutdown
    /\ faucet.pc \in {"run_ok", "match", "done"} =>
          faucet.shutdown /\ faucet.nclose = 1 /\ faucet.http = "closed"
    /\ faucet.pc = "done" => faucet.result = "Ok"
    /\ faucet.result # "Err"
    /\ faucet.run \in {"none", "Ok"}

StartReturnedAfterShutdown ==
    /\ faucet.pc = "done"
    /\ faucet.result = "Ok"
    /\ faucet.nclose = 1
    /\ faucet.served > 0

\* C14: the relay driver's state only moves forward through Uninitialized,
\* CatchingUp, TrackingTip: it is Uninitialized, no call of its own pending,
\* only while the remote client is, and leaves that state only for CatchingUp, on an initialize call that
\* succeeded; it leaves CatchingUp only for TrackingTip, when the gap between
\* the local tip and the remote best height is below the margin; and it
\* never leaves TrackingTip.
DriverRank(state) ==
    CASE state = "off" -> 0
      [] state = "Uninitialized" -> 1
      [] state = "CatchingUp" -> 2
      [] state = "TrackingTip" -> 3

DriverOnlyMovesForward ==
    [][/\ DriverRank(driver'.state) >= DriverRank(driver.state)
       /\ (driver'.state = "Uninitialized" /\ driver'.seen = ncalls') =>
             IsZero(relay'.best_block)
       /\ (driver.state = "Uninitialized" /\ driver'.state # "Uninitialized") =>
             /\ driver'.state = "CatchingUp"
             /\ last.op = "initialize" /\ last.result = "Ok" /\ initOk
             /\ ~IsZero(relay.best_block)
       /\ (driver.state = "CatchingUp" /\ driver'.state # "CatchingUp") =>
             /\ driver'.state = "TrackingTip"
             /\ TrueGap(driver, relay) < Margin
       /\ driver.state = "TrackingTip" => driver'.state = "TrackingTip"]_vars

TrackingTipAfterBatch ==
    /\ driver.state = "TrackingTip"
    /\ initOk
    /\ last.op = "batch" /\ last.result = "Ok" /\ last.delta = MaxBatch
    /\ TrueGap(driver, relay) = 0

\* C15: for every account id and every value of SS58_PREFIX, to_ss58check
\* yields the reference SS58 encoding: the prefix bytes of the 14-bit
\* identifier, the account bytes, the first two bytes of the SS58PRE hash,
\* in base 58.
ToSs58checkIsReference ==
    ss58.step \in {"encoded", "decoded"} =>
        ss58.text = ReferenceSs58(ss58.account, ss58.prefix)

TwoBytePrefixEncoded ==
    /\ ss58.step = "encoded"
    /\ Ident(ss58.prefix) = 2032
    /\ ss58.account # Zeros(BodyLen)
    /\ ss58.text = ReferenceSs58(ss58.account, ss58.prefix)

\* C19: SS58 round trip: from_ss58check(to_ss58check(a)) is Ok(a) for every
\* account id a and every prefix, and the prefix length the decoder takes
\* from the first byte is the number of prefix bytes the encoder wrote.
Ss58RoundTrip ==
    ss58.step = "decoded" =>
        /\ ss58.back.result = "Ok"
        /\ ss58.back.account = ss58.account
        /\ ss58.back.prefix_len = Len(PrefixBytes(Ident(ss58.prefix)))

TwoBytePrefixDecoded ==
    /\ ss58.step = "decoded"
    /\ ss58.back.result = "Ok"
    /\ ss58.back.prefix_len = 2
    /\ ss58.back.account = ss58.account
    /\ ss58.prefix = 256

====
